---------------------------- MODULE Spec2Model ----------------------------
(***************************************************************************)
(* Token-bucket rate limiter of src/app.py: the in-memory store            *)
(* rate_limit_store, the admission check check_rate_limit and the          *)
(* /validate endpoint that calls it.                                       *)
(*                                                                         *)
(* Numbers.  time.time() is read in whole seconds.  A token count is held  *)
(* as an integer number of units, one token being OneToken = REFILL_DEN    *)
(* units, so that one second of elapsed time refills exactly REFILL_NUM    *)
(* units (REFILL_RATE = REFILL_NUM / REFILL_DEN tokens per second) and     *)
(* every value the code computes is an exact integer here.                 *)
(***************************************************************************)
EXTENDS Integers, Sequences, FiniteSets, TLC

\* ---- bounds of the model ----
MaxTime == 2
MaxCalls == 11
MaxLightCalls == 3
MaxAdjust == 1

\* ---- CONFIGURATION (src/app.py:10-12) ----
MAX_TOKENS == 9
REFILL_NUM == 41
REFILL_DEN == 60

DefaultConfig == [MAX_TOKENS |-> MAX_TOKENS, REFILL_NUM |-> REFILL_NUM]

\* Values the two configuration lines may be edited to before start-up.
ConfigChoices ==
    { DefaultConfig,
      [MAX_TOKENS |-> 2, REFILL_NUM |-> REFILL_DEN],
      [MAX_TOKENS |-> 0, REFILL_NUM |-> REFILL_NUM],
      [MAX_TOKENS |-> MAX_TOKENS, REFILL_NUM |-> 0],
      [MAX_TOKENS |-> 2, REFILL_NUM |-> 0 - REFILL_NUM] }

\* ---- request fields (RequestBody, request.client.host) ----
UserIds == {"u1", "u2"}
ClientHosts == {"10.0.0.1"}
Categories == {"Rate Limiting", "Other"}
Inputs == {"hello", "<b>hi</b>"}

\* user_key = f"{data.userId}:{client_ip}"
UserKey(userId, client_ip) == userId \o ":" \o client_ip

Keys == { UserKey(u, h) : u \in UserIds, h \in ClientHosts }
Times == 0..MaxTime

NoBucket == [absent |-> TRUE]
NoKey == "-"

VARIABLES
    config,            \* MAX_TOKENS and REFILL_RATE as the process was started with
    rate_limit_store,  \* user_key -> bucket, NoBucket for a key not in the dict
    clock,             \* the value time.time() returns now, in seconds
    pending,           \* requests accepted by the server whose handler has not run yet
    last,              \* the most recent /validate call and its response
    hist,              \* per key and clock reading: admitted and denied checks so far
    adjusted           \* how many times the wall clock has been set back

vars == <<config, rate_limit_store, clock, pending, last, hist, adjusted>>

\* ---- arithmetic ----
OneToken == REFILL_DEN
Capacity == config.MAX_TOKENS * OneToken
Min(a, b) == IF a <= b THEN a ELSE b

\* Python's round() of the rational num/den, den > 0: nearest integer, ties to even.
RoundHalfEven(num, den) ==
    LET q == num \div den
        r == num - q * den
    IN  IF 2 * r < den THEN q
        ELSE IF 2 * r > den THEN q + 1
        ELSE IF q % 2 = 0 THEN q ELSE q + 1

\* ---- TOKEN BUCKET CHECK ----
\* Creation that starts the whole dict afresh for a new key.
GetOrCreateReset(store, user_key, current_time) ==
    IF store[user_key] = NoBucket
    THEN [k \in DOMAIN store |->
             IF k = user_key
             THEN [tokens |-> Capacity, last_refill |-> current_time]
             ELSE NoBucket]
    ELSE store

\* Creation that writes the bucket whether or not the key is there.
GetOrCreateAlways(store, user_key, current_time) ==
    [store EXCEPT ![user_key] =
        [tokens |-> Capacity, last_refill |-> current_time]]

\* Creation of an empty bucket.
GetOrCreateEmpty(store, user_key, current_time) ==
    IF store[user_key] = NoBucket
    THEN [store EXCEPT ![user_key] =
             [tokens |-> 0, last_refill |-> current_time]]
    ELSE store

\* lines 60-64: insert a full bucket stamped with current_time when the key is new
GetOrCreate(store, user_key, current_time) ==
    IF store[user_key] = NoBucket
    THEN [store EXCEPT ![user_key] =
             [tokens |-> Capacity, last_refill |-> current_time]]
    ELSE store

\* Refill that forgets line 72, the stamp of last_refill.
RefillNoStamp(bucket, current_time) ==
    LET elapsed == current_time - bucket.last_refill
        refill == elapsed * config.REFILL_NUM
    IN  [tokens |-> Min(Capacity, bucket.tokens + refill),
         last_refill |-> bucket.last_refill]

\* Refill that credits whole tokens only, floor(elapsed * REFILL_RATE).
RefillWholeTokens(bucket, current_time) ==
    LET elapsed == current_time - bucket.last_refill
        refill == ((elapsed * config.REFILL_NUM) \div OneToken) * OneToken
    IN  [tokens |-> Min(Capacity, bucket.tokens + refill),
         last_refill |-> current_time]

\* Refill with the subtraction of line 69 the wrong way round.
RefillBackwards(bucket, current_time) ==
    LET elapsed == bucket.last_refill - current_time
        refill == elapsed * config.REFILL_NUM
    IN  [tokens |-> Min(Capacity, bucket.tokens + refill),
         last_refill |-> current_time]

\* lines 69-72: elapsed, refill, clamp at MAX_TOKENS, stamp
Refill(bucket, current_time) ==
    LET elapsed == current_time - bucket.last_refill
        refill == elapsed * config.REFILL_NUM
    IN  [tokens |-> Min(Capacity, bucket.tokens + refill),
         last_refill |-> current_time]

\* The test of line 74 with > for >=.
AdmitsStrict(bucket) == bucket.tokens > OneToken

\* line 74: if bucket["tokens"] >= 1
Admits(bucket) == bucket.tokens >= OneToken

\* An admission that writes back the token count it read before the decrement.
ConsumeLost(bucket) == bucket

\* line 75: bucket["tokens"] -= 1
Consume(bucket) == [bucket EXCEPT !.tokens = @ - OneToken]

\* The retry time with the missing tokens multiplied by REFILL_RATE.
RetryAfterTimesRate(tokens) ==
    RoundHalfEven((OneToken - tokens) * config.REFILL_NUM, OneToken * REFILL_DEN)

\* lines 79-80: round((1 - tokens) / REFILL_RATE), in seconds; REFILL_RATE # 0
RetryAfter(tokens) ==
    LET num == OneToken - tokens
        den == config.REFILL_NUM
    IN  IF den > 0 THEN RoundHalfEven(num, den)
        ELSE RoundHalfEven(0 - num, 0 - den)

\* check_rate_limit without lines 60-64: the lookup of line 66 on a new key.
check_rate_limit_no_create(store, user_key, current_time) ==
    IF store[user_key] = NoBucket
    THEN [store |-> store, raised |-> "KeyError",
          allowed |-> FALSE, retry_after |-> 0]
    ELSE LET bucket == Refill(store[user_key], current_time)
             refilled == [store EXCEPT ![user_key] = bucket]
         IN  IF Admits(bucket)
             THEN [store |-> [refilled EXCEPT ![user_key] = Consume(bucket)],
                   raised |-> "none", allowed |-> TRUE, retry_after |-> 0]
             ELSE [store |-> refilled, raised |-> "none",
                   allowed |-> FALSE, retry_after |-> RetryAfter(bucket.tokens)]

\* The whole of check_rate_limit: the store it leaves, and either the pair it
\* returns or the exception it raises.
check_rate_limit(store, user_key, current_time) ==
    LET created == GetOrCreate(store, user_key, current_time)
    IN  IF created[user_key] = NoBucket
        THEN [store |-> created, raised |-> "KeyError",
              allowed |-> FALSE, retry_after |-> 0]
        ELSE
        LET bucket == Refill(created[user_key], current_time)
            refilled == [created EXCEPT ![user_key] = bucket]
        IN  IF Admits(bucket)
            THEN [store |-> [refilled EXCEPT ![user_key] = Consume(bucket)],
                  raised |-> "none", allowed |-> TRUE, retry_after |-> 0]
            ELSE IF config.REFILL_NUM = 0
            THEN [store |-> refilled, raised |-> "ZeroDivisionError",
                  allowed |-> FALSE, retry_after |-> 0]
            ELSE [store |-> refilled, raised |-> "none",
                  allowed |-> FALSE, retry_after |-> RetryAfter(bucket.tokens)]

\* ---- history kept for the properties ----
NoCalls == [t \in Times |-> [adm |-> 0, den |-> 0]]

RECURSIVE SumOver(_, _)
SumOver(f, S) ==
    IF S = {} THEN 0
    ELSE LET x == CHOOSE y \in S : TRUE IN f[x] + SumOver(f, S \ {x})

Calls(k, t) == hist[k][t].adm + hist[k][t].den
TotalCalls(k) == SumOver([t \in Times |-> Calls(k, t)], Times)
AllCalls == SumOver([k \in Keys |-> TotalCalls(k)], Keys)

Record(h, k, t, res) ==
    IF res.allowed
    THEN [h EXCEPT ![k][t].adm = @ + 1]
    ELSE [h EXCEPT ![k][t].den = @ + 1]

\* ---- MAIN ENDPOINT ----
\* str() of an integer: its decimal digits, a sign before a negative one.
Digit == <<"0", "1", "2", "3", "4", "5", "6", "7", "8", "9">>

RECURSIVE Str(_)
Str(n) ==
    IF n < 0 THEN <<"-">> \o Str(0 - n)
    ELSE IF n < 10 THEN <<Digit[n + 1]>>
    ELSE Str(n \div 10) \o <<Digit[(n % 10) + 1]>>

NoHeader == <<>>

NoResponse ==
    [kind |-> "none", userId |-> NoKey, category |-> NoKey, input |-> NoKey,
     key |-> NoKey, now |-> 0, pre |-> NoBucket, raised |-> "none",
     allowed |-> FALSE, retry_after |-> 0, status |-> 0, blocked |-> FALSE,
     retry_header |-> NoHeader, sanitizedOutput |-> NoKey]

\* The category test with the comparison dropped: every request is checked.
LimitedAlways(category) == TRUE

\* line 87: the requests that go on to the rate limit check
Limited(category) == category = "Rate Limiting"

\* The response with the 429 sent without its Retry-After header.
ResponseNoHeader(base, res, input) ==
    IF res.raised # "none"
    THEN [base EXCEPT !.status = 500, !.blocked = TRUE]
    ELSE IF ~res.allowed
    THEN [base EXCEPT !.status = 429, !.blocked = TRUE]
    ELSE [base EXCEPT !.status = 200, !.blocked = FALSE,
                      !.sanitizedOutput = input]

\* What the client receives for the outcome res of the check.
Response(base, res, input) ==
    IF res.raised # "none"
    THEN \* global_exception_handler, lines 44-53
         [base EXCEPT !.status = 500, !.blocked = TRUE]
    ELSE IF ~res.allowed
    THEN \* lines 96-109
         [base EXCEPT !.status = 429, !.blocked = TRUE,
                      !.retry_header = Str(res.retry_after)]
    ELSE \* lines 114-119
         [base EXCEPT !.status = 200, !.blocked = FALSE,
                      !.sanitizedOutput = input]

\* validate(data, request), run to its return: it holds no await, so the event
\* loop runs it to the end before any other handler.
validate(userId, client_ip, category, input) ==
    IF ~Limited(category)
    THEN \* line 88: HTTPException(400)
         /\ last' = [NoResponse EXCEPT !.kind = "rejected", !.userId = userId,
                        !.category = category, !.input = input, !.status = 400]
         /\ UNCHANGED <<rate_limit_store, hist>>
    ELSE LET user_key == UserKey(userId, client_ip)
             res == check_rate_limit(rate_limit_store, user_key, clock)
             base == [NoResponse EXCEPT !.kind = "checked", !.userId = userId,
                        !.category = category, !.input = input, !.now = clock,
                        !.key = user_key, !.pre = rate_limit_store[user_key],
                        !.raised = res.raised, !.allowed = res.allowed,
                        !.retry_after = res.retry_after]
         IN  /\ rate_limit_store' = res.store
             /\ hist' = Record(hist, user_key, clock, res)
             /\ last' = Response(base, res, input)

\* ---- actions ----
Requests == UserIds \X ClientHosts \X Categories \X Inputs
NoPending == [r \in Requests |-> 0]
InFlight == SumOver(pending, Requests)

\* The first user is the heavy caller; every other user makes few calls.
HeavyUser == "u1"
CallBudget(userId) == IF userId = HeavyUser THEN MaxCalls ELSE MaxLightCalls
BurstRequests == { r \in Requests : r[1] = HeavyUser /\ r[3] = "Rate Limiting" }

\* The requests of one client that always sends the same input.
OneClientRequests == { r \in Requests : r[1] = HeavyUser /\ r[4] = "hello" }

\* One of the requests R arrives and its handler runs with no other request in
\* flight.
ServeFrom(R) ==
    /\ InFlight = 0
    /\ \E r \in R :
          /\ TotalCalls(UserKey(r[1], r[2])) < CallBudget(r[1])
          /\ validate(r[1], r[2], r[3], r[4])
    /\ UNCHANGED <<config, clock, pending, adjusted>>

ServeOne == ServeFrom(OneClientRequests)
ServeAny == ServeFrom(Requests)

\* A request arrives while others wait: the server accepts it and schedules its
\* handler.
Arrive ==
    /\ \E r \in BurstRequests :
          /\ InFlight + TotalCalls(UserKey(r[1], r[2])) < CallBudget(r[1])
          /\ pending' = [pending EXCEPT ![r] = @ + 1]
    /\ UNCHANGED <<config, rate_limit_store, clock, last, hist, adjusted>>

\* The event loop runs one waiting handler, in any order, to its return.
Dispatch ==
    /\ \E r \in Requests :
          /\ pending[r] > 0
          /\ pending' = [pending EXCEPT ![r] = @ - 1]
          /\ validate(r[1], r[2], r[3], r[4])
    /\ UNCHANGED <<config, clock, adjusted>>

\* time.time() moves on by one tick.
Tick ==
    /\ clock < MaxTime
    /\ clock' = clock + 1
    /\ UNCHANGED <<config, rate_limit_store, pending, last, hist, adjusted>>

\* The wall clock is set back (time.time() is not monotonic), at most MaxAdjust
\* times.
ClockStepBack ==
    /\ adjusted < MaxAdjust
    /\ adjusted' = adjusted + 1
    /\ \E t \in Times : t < clock /\ clock' = t
    /\ UNCHANGED <<config, rate_limit_store, pending, last, hist>>

InitWith(c) ==
    /\ config = c
    /\ rate_limit_store = [k \in Keys |-> NoBucket]
    /\ clock = 0
    /\ pending = NoPending
    /\ last = NoResponse
    /\ hist = [k \in Keys |-> NoCalls]
    /\ adjusted = 0

Init == InitWith(DefaultConfig)

\* One client key, the wall clock ticking and now and then set back.
Next == ServeOne \/ Tick \/ ClockStepBack

Spec == Init /\ [][Next]_vars

\* Several client keys side by side.
NextKeys == ServeAny \/ Tick

SpecKeys == Init /\ [][NextKeys]_vars

\* Concurrent callers of one key: requests pile up and are handled in any order.
NextBurst == Arrive \/ Dispatch \/ Tick

SpecBurst == Init /\ [][NextBurst]_vars

\* The process started under any of the configurations.
InitConfig == \E c \in ConfigChoices : InitWith(c)

SpecConfig == InitConfig /\ [][Next]_vars

\* ---- properties ----
Checked == last.kind = "checked"
HasBucket(k) == rate_limit_store[k] # NoBucket

\* Every check of key k so far was made at the clock reading t.
OnlyInstant(k, t) == \A t2 \in Times : t2 # t => Calls(k, t2) = 0

\* Admitted checks of key k stamped within [a, b].
Admitted(k, a, b) == SumOver([t \in Times |-> hist[k][t].adm], a..b)

\* C1 (capacity bound): while every check of a key has been made at the clock
\* reading that created its bucket, the n-th check is admitted exactly when
\* n <= MAX_TOKENS = 9, and the check after the 9th is denied with
\* retry_after > 0.
C1_CapacityBound ==
    (Checked /\ OnlyInstant(last.key, last.now)) =>
        LET n == Calls(last.key, last.now)
        IN  /\ last.allowed <=> n <= MAX_TOKENS
            /\ n = MAX_TOKENS + 1 =>
                  ~last.allowed /\ last.raised = "none" /\ last.retry_after > 0

C1_Witness ==
    /\ Checked /\ OnlyInstant(last.key, last.now)
    /\ Calls(last.key, last.now) = MAX_TOKENS + 1
    /\ hist[last.key][last.now].adm = MAX_TOKENS
    /\ ~last.allowed /\ last.retry_after > 0

\* C2 (token range): every bucket in the store has 0 <= tokens <= capacity.
C2_TokenRange ==
    \A k \in Keys :
        HasBucket(k) =>
            /\ 0 <= rate_limit_store[k].tokens
            /\ rate_limit_store[k].tokens <= Capacity

\* C3 (concurrency safety): when N > MAX_TOKENS callers of one key are handled
\* at the same instant on a fresh bucket, exactly MAX_TOKENS are admitted and
\* N - MAX_TOKENS denied, whatever the order the handlers run in, and every
\* admission took a token of its own.
C3_ConcurrencySafety ==
    \A k \in Keys : \A t \in Times :
        (HasBucket(k) /\ OnlyInstant(k, t)) =>
            /\ rate_limit_store[k].tokens =
                  Capacity - hist[k][t].adm * OneToken
            /\ Calls(k, t) > MAX_TOKENS =>
                  /\ hist[k][t].adm = MAX_TOKENS
                  /\ hist[k][t].den = Calls(k, t) - MAX_TOKENS

C3_Witness ==
    \E k \in Keys : \E t \in Times :
        /\ HasBucket(k) /\ OnlyInstant(k, t)
        /\ InFlight > 0
        /\ Calls(k, t) = MAX_TOKENS + 1
        /\ hist[k][t].adm = MAX_TOKENS /\ hist[k][t].den = 1

\* C4 (rate bound): for every key and every window [a, b] of clock readings,
\* the admitted checks stamped in the window number at most
\* capacity + (b - a) * REFILL_RATE.
C4_RateBound ==
    \A k \in Keys : \A a \in Times : \A b \in Times :
        a <= b =>
            Admitted(k, a, b) * OneToken <= Capacity + (b - a) * config.REFILL_NUM

C4_Witness ==
    \E k \in Keys :
        /\ Admitted(k, 0, 0) = MAX_TOKENS
        /\ Admitted(k, 0, MaxTime) > MAX_TOKENS

\* C5 (refill correctness): a check made t >= 0 seconds after the bucket was
\* left with 0 tokens finds min(capacity, t * REFILL_RATE) tokens, is admitted
\* exactly when that is at least 1, and leaves that less the token it took;
\* 2 seconds after exhaustion it is admitted and leaves about 0.37 tokens,
\* 1 second after exhaustion it is denied.
C5_RefillCorrectness ==
    (Checked /\ last.pre # NoBucket /\ last.pre.tokens = 0
             /\ last.now >= last.pre.last_refill) =>
        LET t == last.now - last.pre.last_refill
            avail == Min(Capacity, t * REFILL_NUM)
            left == rate_limit_store[last.key].tokens
        IN  /\ last.allowed <=> avail >= OneToken
            /\ left = IF last.allowed THEN avail - OneToken ELSE avail
            /\ t = 2 => last.allowed /\ 36 * OneToken <= 100 * left
                                     /\ 100 * left <= 38 * OneToken
            /\ t = 1 => ~last.allowed

C5_Witness ==
    /\ Checked /\ last.pre # NoBucket /\ last.pre.tokens = 0
    /\ last.now - last.pre.last_refill = 2
    /\ last.allowed
    /\ rate_limit_store[last.key].tokens = 2 * REFILL_NUM - OneToken

\* What a check of key k at reading t would return, and the bucket it would leave.
Outcome(store, k, t) ==
    LET res == check_rate_limit(store, k, t)
    IN  <<res.raised, res.allowed, res.retry_after, res.store[k]>>

\* C6 (per-key independence): a check of key a leaves the stored bucket of
\* every other key b as it was, and what a later check of b returns and leaves
\* is what it would be had key a never been seen.
C6_KeyIndependence ==
    /\ [][\A a \in Keys : \A b \in Keys :
            (a # b /\ hist'[a] # hist[a]) =>
                rate_limit_store'[b] = rate_limit_store[b]]_vars
    /\ [](\A a \in Keys : \A b \in Keys : \A t \in Times :
            a # b =>
                Outcome(rate_limit_store, b, t) =
                Outcome([rate_limit_store EXCEPT ![a] = NoBucket], b, t))

C6_Witness ==
    \E b \in Keys :
        /\ Checked /\ last.key # b /\ ~last.allowed
        /\ HasBucket(b)
        /\ rate_limit_store[b].tokens < Capacity - OneToken

\* C7 (retry-after monotonicity): for a stored bucket, of two denied checks the
\* one made at the later clock reading never reports the larger retry_after,
\* and every retry_after returned is an integer >= 0.
C7_RetryAfterMonotone ==
    /\ Checked => last.retry_after \in Nat
    /\ \A k \in Keys : \A t1 \in Times : \A t2 \in Times :
          (HasBucket(k) /\ t1 <= t2) =>
              LET r1 == check_rate_limit(rate_limit_store, k, t1)
                  r2 == check_rate_limit(rate_limit_store, k, t2)
              IN  /\ r1.retry_after \in Nat
                  /\ (~r1.allowed /\ ~r2.allowed) =>
                        r2.retry_after <= r1.retry_after

C7_Witness ==
    /\ Checked /\ ~last.allowed /\ last.retry_after > 0
    /\ \E t2 \in Times :
          LET r2 == check_rate_limit(rate_limit_store, last.key, t2)
          IN  t2 > last.now /\ ~r2.allowed /\ r2.retry_after < last.retry_after

\* C8 (retry-after sufficiency): after a check is denied with retry_after = r,
\* the next check of that key, made r seconds later, is admitted.
C8_RetryAfterSufficient ==
    (Checked /\ ~last.allowed /\ last.raised = "none") =>
        check_rate_limit(rate_limit_store, last.key,
                         last.now + last.retry_after).allowed

\* C8 as amended: after a check is denied with retry_after = r, the next check
\* of that key made r + 1 seconds later is admitted (r is the wait rounded to
\* the nearest second, so it may fall up to half a second short).
C8_RetryAfterPlusOne ==
    (Checked /\ ~last.allowed /\ last.raised = "none") =>
        check_rate_limit(rate_limit_store, last.key,
                         last.now + last.retry_after + 1).allowed

C8_Witness ==
    /\ Checked /\ ~last.allowed /\ last.retry_after = 1
    /\ ~check_rate_limit(rate_limit_store, last.key, last.now + 1).allowed
    /\ check_rate_limit(rate_limit_store, last.key, last.now + 2).allowed

ValidConfig == config.MAX_TOKENS > 0 /\ config.REFILL_NUM > 0

\* C9 (configuration fail-fast): under a configuration with capacity <= 0 or
\* REFILL_RATE <= 0 no admission check is ever executed.
C9_FailFast == ~ValidConfig => (~Checked /\ \A k \in Keys : ~HasBucket(k))

\* C10 (no runtime error path): under a valid configuration every check, made
\* or still to be made on any key at any clock reading, returns a decision
\* (a boolean and an integer) and raises nothing.
C10_NoRuntimeError ==
    ValidConfig =>
        /\ Checked =>
              /\ last.raised = "none"
              /\ last.allowed \in BOOLEAN /\ last.retry_after \in Int
              /\ last.status \in {200, 429}
        /\ \A k \in Keys : \A t \in Times :
              check_rate_limit(rate_limit_store, k, t).raised = "none"

C10_Witness ==
    /\ ValidConfig /\ config # DefaultConfig
    /\ Checked /\ ~last.allowed /\ last.raised = "none" /\ last.status = 429
    /\ \E k \in Keys : ~HasBucket(k)

\* C11 (timestamp monotonicity): in every check of a key that has a bucket the
\* elapsed time, the clock reading less the bucket's last_refill, is >= 0, and
\* the last_refill the check leaves is not below the one it found.
C11_TimestampMonotone ==
    (Checked /\ last.pre # NoBucket) =>
        /\ last.now - last.pre.last_refill >= 0
        /\ rate_limit_store[last.key].last_refill >= last.pre.last_refill

\* Some request for key k is waiting for its handler.
Waiting(k) == \E r \in Requests : pending[r] > 0 /\ UserKey(r[1], r[2]) = k

\* C12 (single bucket per key under contention): with several first callers
\* of a key in flight, only the check that finds no bucket creates one, and it
\* is the first check of the key; a check that finds a bucket keeps it and
\* leaves that same bucket refilled, less one token if admitted, never a new
\* full one.
C12_SingleBucket ==
    /\ [](Checked /\ last.pre = NoBucket => TotalCalls(last.key) = 1)
    /\ [][\A k \in Keys :
            (hist'[k] # hist[k] /\ HasBucket(k)) =>
                LET kept == Refill(rate_limit_store[k], clock)
                IN  /\ rate_limit_store'[k] # NoBucket
                    /\ rate_limit_store'[k] \in {kept, Consume(kept)}]_vars

C12_Witness ==
    \E k \in Keys :
        /\ Waiting(k) /\ Checked /\ last.key = k
        /\ last.pre # NoBucket /\ last.pre.tokens = Capacity - OneToken
        /\ TotalCalls(k) = 2
        /\ rate_limit_store[k].tokens = Capacity - 2 * OneToken

\* The tokens a bucket (or a key with none) holds once refilled at reading t.
PostRefill(bucket, t) ==
    IF bucket = NoBucket THEN Capacity
    ELSE Min(Capacity, bucket.tokens + (t - bucket.last_refill) * config.REFILL_NUM)

\* C13 (same-instant calls): a check made at the clock reading of the key's
\* previous check adds no refill: it is admitted exactly when a whole token
\* was left and takes one token from what was left; two checks in immediate
\* succession at one reading, both admitted, leave the first one's post-refill
\* value less exactly 2 tokens.
C13_SameInstant ==
    /\ (Checked /\ last.pre # NoBucket /\ last.pre.last_refill = last.now) =>
          /\ last.allowed <=> last.pre.tokens >= OneToken
          /\ rate_limit_store[last.key].tokens =
                IF last.allowed THEN last.pre.tokens - OneToken
                ELSE last.pre.tokens
    /\ \A k \in Keys : \A t \in Times :
          LET r1 == check_rate_limit(rate_limit_store, k, t)
              r2 == check_rate_limit(r1.store, k, t)
          IN  (r1.allowed /\ r2.allowed) =>
                  r2.store[k].tokens =
                      PostRefill(rate_limit_store[k], t) - 2 * OneToken

C13_Witness ==
    /\ Checked /\ last.allowed
    /\ last.pre # NoBucket /\ last.pre.last_refill = last.now
    /\ last.pre.tokens = OneToken + REFILL_NUM
    /\ rate_limit_store[last.key].tokens = REFILL_NUM

\* The integer a string of decimal digits, with or without a sign, stands for.
DigitValue(ch) == CHOOSE d \in 0..9 : Digit[d + 1] = ch

RECURSIVE ParseNat(_)
ParseNat(str) ==
    IF Len(str) = 0 THEN 0
    ELSE 10 * ParseNat(SubSeq(str, 1, Len(str) - 1)) + DigitValue(str[Len(str)])

ParseInt(str) ==
    IF Len(str) > 0 /\ str[1] = "-" THEN 0 - ParseNat(Tail(str))
    ELSE ParseNat(str)

\* C14 (transport mapping): a "Rate Limiting" request is answered 429 with
\* blocked = true and a Retry-After header that reads as the retry_after the
\* check returned exactly when the check denied; otherwise it is answered
\* with blocked = false and the input unchanged as sanitizedOutput.
C14_TransportMapping ==
    (last.kind # "none" /\ last.category = "Rate Limiting") =>
        /\ Checked
        /\ ~last.allowed <=>
              /\ last.status = 429 /\ last.blocked
              /\ last.retry_header # NoHeader
              /\ ParseInt(last.retry_header) = last.retry_after
        /\ last.allowed =>
              /\ last.status = 200 /\ ~last.blocked
              /\ last.sanitizedOutput = last.input
              /\ last.retry_header = NoHeader

C14_Witness ==
    /\ Checked /\ ~last.allowed /\ last.status = 429
    /\ last.retry_after = 1 /\ last.retry_header = <<"1">>
    /\ last.input # "hello"

\* C15 (step effect of one check): a check is admitted exactly when the
\* post-refill value min(capacity, tokens + elapsed * REFILL_RATE) is >= 1;
\* admitted, it returns retry_after = 0 and leaves the post-refill value less
\* exactly 1; denied, it leaves the post-refill value; either way last_refill
\* is the clock reading of the check.
C15_StepEffect ==
    Checked =>
        LET post == PostRefill(last.pre, last.now)
            left == rate_limit_store[last.key]
        IN  /\ last.allowed <=> post >= OneToken
            /\ last.allowed => last.retry_after = 0 /\ left.tokens = post - OneToken
            /\ ~last.allowed => left.tokens = post
            /\ left.last_refill = last.now

C15_Witness ==
    /\ Checked /\ ~last.allowed /\ last.pre # NoBucket
    /\ last.now > last.pre.last_refill
    /\ rate_limit_store[last.key].tokens > last.pre.tokens
    /\ adjusted > 0

\* C16 (lazy creation, growth-only store): a key has a bucket exactly when it
\* has been checked; the first check of a key is admitted and leaves the
\* bucket at capacity less 1 token, stamped with the clock reading of the
\* check; no step removes a key from the store.
C16_LazyGrowthOnly ==
    /\ [](\A k \in Keys : HasBucket(k) <=> TotalCalls(k) > 0)
    /\ []((Checked /\ last.pre = NoBucket) =>
              /\ last.allowed
              /\ rate_limit_store[last.key] =
                    [tokens |-> Capacity - OneToken, last_refill |-> last.now])
    /\ [][\A k \in Keys : HasBucket(k) => rate_limit_store'[k] # NoBucket]_vars

C16_Witness ==
    /\ \A k \in Keys : HasBucket(k)
    /\ Checked /\ last.pre = NoBucket /\ last.now > 0
    /\ \E k \in Keys : rate_limit_store[k].tokens < OneToken

\* Whole seconds that are at least 1 / REFILL_RATE.
LongWaits == { d \in 1..(MaxTime + 2) : d * REFILL_NUM >= OneToken }

\* C17 (no terminal throttling state): from every stored bucket, a check made
\* at least 1 / REFILL_RATE seconds after the key's last check is admitted.
C17_NoTerminalThrottling ==
    \A k \in Keys : \A d \in LongWaits :
        HasBucket(k) =>
            check_rate_limit(rate_limit_store, k,
                             rate_limit_store[k].last_refill + d).allowed

\* C18 (rejected categories leave the limiter alone): a request whose category
\* is not "Rate Limiting" is answered 400 without a check, and the step that
\* answers it changes neither rate_limit_store nor the count of checks.
C18_RejectedUntouched ==
    /\ []((last.kind # "none" /\ last.category # "Rate Limiting") =>
              /\ last.kind = "rejected" /\ last.status = 400
              /\ last.key = NoKey /\ last.pre = NoBucket)
    /\ [][last'.kind = "rejected" =>
              /\ rate_limit_store' = rate_limit_store
              /\ hist' = hist]_vars

C18_Witness ==
    /\ last.kind = "rejected" /\ last.status = 400
    /\ \E h \in ClientHosts : ~HasBucket(UserKey(last.userId, h))
    /\ \E k \in Keys : HasBucket(k) /\ rate_limit_store[k].tokens < Capacity

=============================================================================
